---- MODULE Spec2Model ----
(***************************************************************************)
(* Weather_Drone firmware (src/src/main.cpp): setup() brings up the BME280 *)
(* sensor, the GPS serial port, Wi-Fi and the Firebase app; loop() runs    *)
(* app.loop(), drains the GPS serial port and, when the app is ready and   *)
(* 10 s have passed since the last send, reads the sensors and issues the  *)
(* Database.set uploads.  The collaborators (BME280, TinyGPS++, Wi-Fi,     *)
(* FirebaseClient, millis()) are the environment: their answers are inputs *)
(* of the actions, and the calls made on them are recorded in `trace`.     *)
(***************************************************************************)
EXTENDS Integers, Sequences, FiniteSets, TLC

VARIABLES
    pc,            \* position of the program: "setup", "halted", "wifi", "loop"
    bmeBegin,      \* what bme.begin(0x76) answered: "none" before the call
    wifiBegun,     \* WiFi.begin() has been called
    wifiStatus,    \* WiFi.status()
    polls,         \* turns of the Wi-Fi wait loop taken so far
    now,           \* the hardware millisecond counter behind millis(), 32 bit
    wraps,         \* how many times that counter has wrapped since boot
    tickAt,        \* wraps and counter at the instant lastSendTime refers to
    appInit,       \* initializeApp() has been called
    ready,         \* app.ready()
    appUid,        \* the latest answer of app.getUid()
    pending,       \* uploads issued whose result has not been delivered yet
    gpsBuf,        \* bytes waiting in gpsSerial
    gps,           \* the TinyGPSPlus object
    iter,          \* loop() iterations completed
    lastSendTime,  \* main.cpp:44
    currentTime,   \* main.cpp:146, the last value read from millis()
    uid,           \* main.cpp:48
    paths,         \* main.cpp:51-61
    bmeVals,       \* main.cpp:65-67: temperature, humidity, pressure
    gpsVals,       \* main.cpp:72-78: latitude .. timeUTC
    trace,         \* calls made on the collaborators in the latest loop() iteration
    checks         \* the timer-gate checks made so far

vars == <<pc, bmeBegin, wifiBegun, wifiStatus, polls, now, wraps, tickAt, appInit, ready,
          appUid, pending, gpsBuf, gps, iter, lastSendTime, currentTime, uid, paths,
          bmeVals, gpsVals, trace, checks>>

(***************************************************************************)
(* Bounds of the model.                                                    *)
(***************************************************************************)
MaxIter == 2
MaxChecks == 3
MaxPolls == 1

(***************************************************************************)
(* unsigned long: 32 bit on ESP32 and ESP8266.  A value is kept as two     *)
(* 16-bit limbs <<hi, lo>>, arithmetic is modulo 2^32.                     *)
(***************************************************************************)
Base == 2^16

U32 == (0 .. Base - 1) \X (0 .. Base - 1)

ToU32(n) == <<(n \div Base) % Base, n % Base>>

U32Add(a, b) ==
    LET lo == a[2] + b[2]
        carry == IF lo >= Base THEN 1 ELSE 0
    IN  <<(a[1] + b[1] + carry) % Base, lo % Base>>

U32Sub(a, b) ==
    LET lo == a[2] - b[2]
        borrow == IF lo < 0 THEN 1 ELSE 0
    IN  <<(a[1] - b[1] - borrow + 2 * Base) % Base, (lo + Base) % Base>>

U32Geq(a, b) == a[1] > b[1] \/ (a[1] = b[1] /\ a[2] >= b[2])

U32Lt(a, b) == ~U32Geq(a, b)

\* Real time since boot, never wrapping: <<wraps, hi, lo>>.
Real(w, t) == <<w, t[1], t[2]>>

\* a + n for a 32-bit amount n, carried into the wrap count.
RealPlus(a, n) ==
    LET lo == a[3] + n[2]
        c1 == IF lo >= Base THEN 1 ELSE 0
        hi == a[2] + n[1] + c1
        c2 == IF hi >= Base THEN 1 ELSE 0
    IN  <<a[1] + c2, hi % Base, lo % Base>>

RealGeq(a, b) ==
    \/ a[1] > b[1]
    \/ a[1] = b[1] /\ a[2] > b[2]
    \/ a[1] = b[1] /\ a[2] = b[2] /\ a[3] >= b[3]

sendInterval == 10000
PollDelay == 300

\* Time that can pass between two program steps: nothing, 1 ms, just under
\* and exactly the interval, and 2^32 - interval/2 ms, which wraps the counter.
Deltas ==
    { ToU32(0), ToU32(1), ToU32(sendInterval - 1), ToU32(sendInterval),
      U32Sub(ToU32(0), ToU32(sendInterval \div 2)) }

MainDeltas == { ToU32(0), ToU32(sendInterval) }

(***************************************************************************)
(* Values.  A float or double is the fraction <<numerator, denominator>>.  *)
(***************************************************************************)
Rat(n, d) == <<n, d>>

RatDiv(r, k) == <<r[1], r[2] * k>>

Val(type, v) == [t |-> type, v |-> v]

Temps == { Rat(215, 10), Rat(-30, 10) }
Hums == { Rat(40, 1) }
Pressures == { Rat(101325, 1) }
Uids == { "abc123", "u2" }

\* The TinyGPSPlus object before any sentence was decoded.
GpsNone ==
    [valid |-> FALSE, lat |-> Rat(0, 1), lng |-> Rat(0, 1), meters |-> Rat(0, 1),
     kmph |-> Rat(0, 1), hdop |-> 0, sats |-> 0,
     year |-> 2000, month |-> 0, day |-> 0, hour |-> 0, minute |-> 0, second |-> 0]

FixA ==
    [valid |-> TRUE, lat |-> Rat(46097, 10000), lng |-> Rat(-740817, 10000),
     meters |-> Rat(2640, 1), kmph |-> Rat(0, 1), hdop |-> 120, sats |-> 7,
     year |-> 2024, month |-> 7, day |-> 9, hour |-> 14, minute |-> 5, second |-> 0]

FixB ==
    [valid |-> TRUE, lat |-> Rat(46101, 10000), lng |-> Rat(-740820, 10000),
     meters |-> Rat(2655, 1), kmph |-> Rat(36, 1), hdop |-> 95, sats |-> 9,
     year |-> 2024, month |-> 7, day |-> 9, hour |-> 14, minute |-> 5, second |-> 10]

\* A byte of the GPS stream: "x" completes no sentence with a fix, "A" and
\* "B" are the last byte of a sentence that carries the fix FixA or FixB.
GpsBytes == { "x", "A", "B" }

\* What can arrive on gpsSerial between two loop() iterations.
GpsArrivals == { <<>>, <<"x", "A">>, <<"B">> }

\* gps.encode(c): TinyGPS++ commits a fix when the byte completes a sentence
\* that carries one; location.isValid() stays true from then on.
Encode(g, c) ==
    CASE c = "A" -> FixA
      [] c = "B" -> FixB
      [] OTHER -> g

(***************************************************************************)
(* The calls loop() makes on its collaborators, in order.                  *)
(***************************************************************************)
Ev(op, arg) == [op |-> op, arg |-> arg]

\* A call recorded with the value the collaborator answered.
RetEv(op, v) == [op |-> op, ret |-> v]

SetEv(path, value, task) ==
    [op |-> "Database.set", arg |-> path, val |-> value, task |-> task]

IsSet(e) == e.op = "Database.set"

Calls(tr) == SelectSeq(tr, IsSet)

\* An AsyncResult handed to processData.
Res(task, res, ev, dbg, err, av) ==
    [task |-> task, isResult |-> res, isEvent |-> ev, isDebug |-> dbg,
     isError |-> err, available |-> av]

NotResult == Res("authTask", FALSE, FALSE, FALSE, FALSE, FALSE)
AuthEvent == Res("authTask", TRUE, TRUE, TRUE, FALSE, FALSE)
UploadError == Res("RTDB_Send", TRUE, FALSE, FALSE, TRUE, FALSE)
UploadPayload == Res("RTDB_Send", TRUE, FALSE, FALSE, FALSE, TRUE)

\* What one call of app.loop() can deliver to the callback.
ResultBatches == { <<>>, <<UploadError>>, <<NotResult, AuthEvent, UploadPayload>> }

\* The result ends an upload: it is no longer in flight.
Completes(r) == r.task = "RTDB_Send" /\ r.isResult /\ (r.isError \/ r.available)

RECURSIVE Completions(_)
Completions(rs) ==
    IF rs = <<>> THEN 0
    ELSE (IF Completes(Head(rs)) THEN 1 ELSE 0) + Completions(Tail(rs))

(***************************************************************************)
(* The globals of main.cpp that loop() and processData can write, as one   *)
(* record threaded through the steps of a loop() iteration.                *)
(***************************************************************************)
Globals ==
    [lastSendTime |-> lastSendTime, currentTime |-> currentTime, uid |-> uid,
     paths |-> paths, bmeVals |-> bmeVals, gpsVals |-> gpsVals, trace |-> trace]

\* Mutant: an Error result makes the handler issue the write again.
ProcessDataRetry(m, aResult) ==
    IF ~aResult.isResult THEN m
    ELSE IF aResult.isError
         THEN [m EXCEPT !.trace = @ \o
                 <<Ev("printf", "Error task"),
                   SetEv(m.paths.tempPath, Val("float", m.bmeVals.temperature),
                         "RTDB_Send_Temperature")>>]
         ELSE [m EXCEPT !.trace = Append(@, Ev("printf", "task"))]

\* processData(aResult), main.cpp:235-251.
ProcessData(m, aResult) ==
    IF ~aResult.isResult THEN m
    ELSE LET ev == IF aResult.isEvent THEN <<Ev("printf", "Event task")>> ELSE <<>>
             dbg == IF aResult.isDebug THEN <<Ev("printf", "Debug task")>> ELSE <<>>
             err == IF aResult.isError THEN <<Ev("printf", "Error task")>> ELSE <<>>
             pay == IF aResult.available THEN <<Ev("printf", "task")>> ELSE <<>>
         IN  [m EXCEPT !.trace = @ \o ev \o dbg \o err \o pay]

\* app.loop(): the library advances its tasks and hands each result that is
\* due to the callback registered with the task, processData.
RECURSIVE Deliver(_, _)
Deliver(m, rs) ==
    IF rs = <<>> THEN m
    ELSE Deliver(ProcessData([m EXCEPT !.trace = Append(@, Ev("processData", Head(rs).task))],
                             Head(rs)),
                 Tail(rs))

AppLoop(m, rs) == Deliver([m EXCEPT !.trace = Append(@, Ev("app.loop", ""))], rs)

\* An "if" in place of the "while": at most one byte is fed per iteration.
DrainGPSOnce(s) ==
    IF Len(s.buf) > 0
    THEN [gps |-> Encode(s.gps, Head(s.buf)), buf |-> Tail(s.buf),
          trace |-> Append(s.trace, Ev("gps.encode", Head(s.buf)))]
    ELSE s

\* while (gpsSerial.available() > 0) gps.encode(gpsSerial.read());
RECURSIVE DrainGPS(_)
DrainGPS(s) ==
    IF Len(s.buf) > 0
    THEN DrainGPS([gps |-> Encode(s.gps, Head(s.buf)),
                   buf |-> Tail(s.buf),
                   trace |-> Append(s.trace, Ev("gps.encode", Head(s.buf)))])
    ELSE s

\* Mutants of the timer test: a strict comparison, a first send at boot,
\* and the sum taken on the other side of the comparison.
ShouldSendStrict(ct, last) == ~U32Geq(ToU32(sendInterval), U32Sub(ct, last))

ShouldSendAtBoot(ct, last) ==
    last = ToU32(0) \/ U32Geq(U32Sub(ct, last), ToU32(sendInterval))

ShouldSendBySum(ct, last) == U32Geq(ct, U32Add(last, ToU32(sendInterval)))

\* currentTime - lastSendTime >= sendInterval, in unsigned long.
ShouldSend(ct, last) == U32Geq(U32Sub(ct, last), ToU32(sendInterval))

\* Mutant: the paths are built before uid is refreshed, from its old value.
BuildPathsStale(m, u) ==
    LET databasePath == "UsersData/" \o m.uid
    IN  [m EXCEPT
           !.uid = u,
           !.paths = [databasePath |-> databasePath,
                      tempPath |-> databasePath \o "/temperature",
                      humPath |-> databasePath \o "/humidity",
                      presPath |-> databasePath \o "/pressure",
                      latPath |-> databasePath \o "/latitude",
                      lngPath |-> databasePath \o "/longitude",
                      altPath |-> databasePath \o "/altitude",
                      speedPath |-> databasePath \o "/speed",
                      hdopPath |-> databasePath \o "/hdop",
                      satellitesPath |-> databasePath \o "/satellites",
                      timeUTCPath |-> databasePath \o "/timeUTC"],
           !.trace = @ \o <<RetEv("app.getUid", u), Ev("printf", "User UID"),
                            RetEv("app.getUid", u)>>]

\* main.cpp:152-167.
BuildPaths(m, u) ==
    LET databasePath == "UsersData/" \o u
    IN  [m EXCEPT
           !.uid = u,
           !.paths = [databasePath |-> databasePath,
                      tempPath |-> databasePath \o "/temperature",
                      humPath |-> databasePath \o "/humidity",
                      presPath |-> databasePath \o "/pressure",
                      latPath |-> databasePath \o "/latitude",
                      lngPath |-> databasePath \o "/longitude",
                      altPath |-> databasePath \o "/altitude",
                      speedPath |-> databasePath \o "/speed",
                      hdopPath |-> databasePath \o "/hdop",
                      satellitesPath |-> databasePath \o "/satellites",
                      timeUTCPath |-> databasePath \o "/timeUTC"],
           !.trace = @ \o <<RetEv("app.getUid", u), Ev("printf", "User UID"),
                            RetEv("app.getUid", u)>>]

\* main.cpp:169-172.
ReadBME(m, t, h, p) ==
    [m EXCEPT
       !.bmeVals = [temperature |-> t, humidity |-> h, pressure |-> RatDiv(p, 100)],
       !.trace = @ \o <<RetEv("bme.readTemperature", t), RetEv("bme.readHumidity", h),
                        RetEv("bme.readPressure", p)>>]

\* main.cpp:185-190.
FormatTimeUTC(g) ==
    ToString(g.year) \o "/" \o ToString(g.month) \o "/" \o ToString(g.day) \o ","
    \o ToString(g.hour) \o ":" \o ToString(g.minute) \o ":" \o ToString(g.second)

\* A capture that keeps the first fix: later ticks leave the globals alone.
ReadGPSOnce(m, g) ==
    IF g.valid
    THEN [m EXCEPT
            !.gpsVals = IF m.gpsVals.satellites # 0
                        THEN m.gpsVals
                        ELSE [latitude |-> g.lat, longitude |-> g.lng,
                              altitude |-> g.meters, speed |-> g.kmph,
                              hdop |-> RatDiv(Rat(g.hdop, 1), 100),
                              satellites |-> g.sats, timeUTC |-> FormatTimeUTC(g)],
            !.trace = @ \o <<RetEv("gps.location.isValid", TRUE), RetEv("gps.read", g)>>]
    ELSE [m EXCEPT
            !.trace = @ \o <<RetEv("gps.location.isValid", FALSE),
                             Ev("println", "GPS location not valid yet")>>]

\* main.cpp:174-211.
ReadGPS(m, g) ==
    IF g.valid
    THEN [m EXCEPT
            !.gpsVals = [latitude |-> g.lat, longitude |-> g.lng,
                         altitude |-> g.meters, speed |-> g.kmph,
                         hdop |-> RatDiv(Rat(g.hdop, 1), 100),
                         satellites |-> g.sats, timeUTC |-> FormatTimeUTC(g)],
            !.trace = @ \o <<RetEv("gps.location.isValid", TRUE), RetEv("gps.read", g)>>]
    ELSE [m EXCEPT
            !.trace = @ \o <<RetEv("gps.location.isValid", FALSE),
                             Ev("println", "GPS location not valid yet")>>]

\* main.cpp:213-218.
SendBME(m) ==
    [m EXCEPT !.trace = @ \o
       <<SetEv(m.paths.tempPath, Val("float", m.bmeVals.temperature), "RTDB_Send_Temperature"),
         SetEv(m.paths.humPath, Val("float", m.bmeVals.humidity), "RTDB_Send_Humidity"),
         SetEv(m.paths.presPath, Val("float", m.bmeVals.pressure), "RTDB_Send_Pressure")>>]

\* Mutant: the GPS uploads are not guarded by the validity of the fix.
SendGPSAlways(m, g) ==
    [m EXCEPT !.trace = @ \o
       <<SetEv(m.paths.latPath, Val("double", m.gpsVals.latitude), "RTDB_Send_Latitude"),
         SetEv(m.paths.lngPath, Val("double", m.gpsVals.longitude), "RTDB_Send_Longitude"),
         SetEv(m.paths.altPath, Val("double", m.gpsVals.altitude), "RTDB_Send_Altitude"),
         SetEv(m.paths.speedPath, Val("double", m.gpsVals.speed), "RTDB_Send_Speed"),
         SetEv(m.paths.hdopPath, Val("double", m.gpsVals.hdop), "RTDB_Send_HDOP"),
         SetEv(m.paths.satellitesPath, Val("int", m.gpsVals.satellites), "RTDB_Send_Satellites"),
         SetEv(m.paths.timeUTCPath, Val("String", m.gpsVals.timeUTC), "RTDB_Send_TimeUTC")>>]

\* Mutant: the longitude is written to the latitude path.
SendGPSSamePath(m, g) ==
    IF g.valid
    THEN [m EXCEPT !.trace = @ \o
            <<RetEv("gps.location.isValid", TRUE),
              SetEv(m.paths.latPath, Val("double", m.gpsVals.latitude), "RTDB_Send_Latitude"),
              SetEv(m.paths.latPath, Val("double", m.gpsVals.longitude), "RTDB_Send_Longitude"),
              SetEv(m.paths.altPath, Val("double", m.gpsVals.altitude), "RTDB_Send_Altitude"),
              SetEv(m.paths.speedPath, Val("double", m.gpsVals.speed), "RTDB_Send_Speed"),
              SetEv(m.paths.hdopPath, Val("double", m.gpsVals.hdop), "RTDB_Send_HDOP"),
              SetEv(m.paths.satellitesPath, Val("int", m.gpsVals.satellites), "RTDB_Send_Satellites"),
              SetEv(m.paths.timeUTCPath, Val("String", m.gpsVals.timeUTC), "RTDB_Send_TimeUTC")>>]
    ELSE [m EXCEPT !.trace = Append(@, RetEv("gps.location.isValid", FALSE))]

\* main.cpp:220-230.
SendGPS(m, g) ==
    IF g.valid
    THEN [m EXCEPT !.trace = @ \o
            <<RetEv("gps.location.isValid", TRUE),
              SetEv(m.paths.latPath, Val("double", m.gpsVals.latitude), "RTDB_Send_Latitude"),
              SetEv(m.paths.lngPath, Val("double", m.gpsVals.longitude), "RTDB_Send_Longitude"),
              SetEv(m.paths.altPath, Val("double", m.gpsVals.altitude), "RTDB_Send_Altitude"),
              SetEv(m.paths.speedPath, Val("double", m.gpsVals.speed), "RTDB_Send_Speed"),
              SetEv(m.paths.hdopPath, Val("double", m.gpsVals.hdop), "RTDB_Send_HDOP"),
              SetEv(m.paths.satellitesPath, Val("int", m.gpsVals.satellites), "RTDB_Send_Satellites"),
              SetEv(m.paths.timeUTCPath, Val("String", m.gpsVals.timeUTC), "RTDB_Send_TimeUTC")>>]
    ELSE [m EXCEPT !.trace = Append(@, RetEv("gps.location.isValid", FALSE))]

\* A block that moves lastSendTime on by one interval instead of to the time
\* of the send, so that every missed interval is caught up by a tick.
TelemetryCatchUp(m, g, u, t, h, p) ==
    SendGPS(SendBME(ReadGPS(ReadBME(BuildPaths(
        [m EXCEPT !.lastSendTime = U32Add(m.lastSendTime, ToU32(sendInterval))],
        u), t, h, p), g)), g)

\* Mutant: the block does not record the time of the send.
TelemetryNoStamp(m, g, u, t, h, p) ==
    SendGPS(SendBME(ReadGPS(ReadBME(BuildPaths(m, u), t, h, p), g)), g)

\* The block guarded by the timer, main.cpp:149-230.
Telemetry(m, g, u, t, h, p) ==
    SendGPS(SendBME(ReadGPS(ReadBME(BuildPaths(
        [m EXCEPT !.lastSendTime = m.currentTime], u), t, h, p), g)), g)

\* Mutant: the timer gate is not nested in the readiness check.
GateNoReady(m, r, ms, g, u, t, h, p) ==
    LET m2 == [m EXCEPT !.currentTime = ms,
                        !.trace = @ \o <<RetEv("app.ready", r), RetEv("millis", ms)>>]
    IN  IF ShouldSend(m2.currentTime, m2.lastSendTime)
        THEN Telemetry(m2, g, u, t, h, p)
        ELSE m2

\* A gate whose timer restarts whenever the app is found not ready.
GateRestartsWhenNotReady(m, r, ms, g, u, t, h, p) ==
    LET m1 == [m EXCEPT !.trace = Append(@, RetEv("app.ready", r))]
    IN  IF r
        THEN LET m2 == [m1 EXCEPT !.currentTime = ms,
                                  !.trace = Append(@, RetEv("millis", ms))]
             IN  IF ShouldSend(m2.currentTime, m2.lastSendTime)
                 THEN Telemetry(m2, g, u, t, h, p)
                 ELSE m2
        ELSE [m1 EXCEPT !.lastSendTime = ms]

\* A gate that samples the sensor on every ready iteration, due or not.
GateSamplesAlways(m, r, ms, g, u, t, h, p) ==
    LET m1 == [m EXCEPT !.trace = Append(@, RetEv("app.ready", r))]
    IN  IF r
        THEN LET m2 == [m1 EXCEPT !.currentTime = ms,
                                  !.trace = Append(@, RetEv("millis", ms))]
             IN  IF ShouldSend(m2.currentTime, m2.lastSendTime)
                 THEN Telemetry(m2, g, u, t, h, p)
                 ELSE ReadBME(m2, t, h, p)
        ELSE m1

\* main.cpp:141-232: the readiness check and the timer gate.
Gate(m, r, ms, g, u, t, h, p) ==
    LET m1 == [m EXCEPT !.trace = Append(@, RetEv("app.ready", r))]
    IN  IF r
        THEN LET m2 == [m1 EXCEPT !.currentTime = ms,
                                  !.trace = Append(@, RetEv("millis", ms))]
             IN  IF ShouldSend(m2.currentTime, m2.lastSendTime)
                 THEN Telemetry(m2, g, u, t, h, p)
                 ELSE m2
        ELSE m1

\* One call of loop(), main.cpp:130-233.
LoopBody(m, rs, buf, g, r, ms, u, t, h, p) ==
    LET m1 == AppLoop([m EXCEPT !.trace = <<>>], rs)
        s == DrainGPS([gps |-> g, buf |-> buf, trace |-> m1.trace])
        m2 == Gate([m1 EXCEPT !.trace = s.trace], r, ms, s.gps, u, t, h, p)
    IN  [m |-> m2, gps |-> s.gps, buf |-> s.buf]

\* The telemetry block ran: its first statement printed the uid.
Ran(tr) == \E i \in 1 .. Len(tr) : tr[i].op = "printf" /\ tr[i].arg = "User UID"

(***************************************************************************)
(* Initial state: the globals as their initializers leave them.            *)
(***************************************************************************)
NoPaths ==
    [databasePath |-> "", tempPath |-> "", humPath |-> "", presPath |-> "",
     latPath |-> "", lngPath |-> "", altPath |-> "", speedPath |-> "",
     hdopPath |-> "", satellitesPath |-> "", timeUTCPath |-> ""]

Init ==
    /\ pc = "setup"
    /\ bmeBegin = "none"
    /\ wifiBegun = FALSE
    /\ wifiStatus = "WL_DISCONNECTED"
    /\ polls = 0
    /\ now = ToU32(0)
    /\ wraps = 0
    /\ tickAt = [w |-> 0, t |-> ToU32(0)]
    /\ appInit = FALSE
    /\ ready = FALSE
    /\ appUid = ""
    /\ pending = 0
    /\ gpsBuf = <<>>
    /\ gps = GpsNone
    /\ iter = 0
    /\ lastSendTime = ToU32(0)
    /\ currentTime = ToU32(0)
    /\ uid = ""
    /\ paths = NoPaths
    /\ bmeVals = [temperature |-> Rat(0, 1), humidity |-> Rat(0, 1), pressure |-> Rat(0, 1)]
    /\ gpsVals = [latitude |-> Rat(0, 1), longitude |-> Rat(0, 1), altitude |-> Rat(0, 1),
                  speed |-> Rat(0, 1), hdop |-> Rat(0, 1), satellites |-> 0, timeUTC |-> ""]
    /\ trace = <<>>
    /\ checks = <<>>

(***************************************************************************)
(* setup(), main.cpp:99-128.                                               *)
(***************************************************************************)
\* Mutant: initBME() reports the failure and returns.
InitBMENoHalt(ok) ==
    /\ pc = "setup"
    /\ bmeBegin' = IF ok THEN "ok" ELSE "fail"
    /\ pc' = "wifi"
    /\ wifiBegun' = TRUE
    /\ UNCHANGED <<wifiStatus, polls, now, wraps, tickAt, appInit, ready, appUid, pending,
                   gpsBuf, gps, iter, lastSendTime, currentTime, uid, paths, bmeVals,
                   gpsVals, trace, checks>>

\* initBME() with bme.begin(0x76) answering ok, then initGPS() and WiFi.begin().
InitBME(ok) ==
    /\ pc = "setup"
    /\ bmeBegin' = IF ok THEN "ok" ELSE "fail"
    /\ pc' = IF ok THEN "wifi" ELSE "halted"
    /\ wifiBegun' = ok
    /\ UNCHANGED <<wifiStatus, polls, now, wraps, tickAt, appInit, ready, appUid, pending,
                   gpsBuf, gps, iter, lastSendTime, currentTime, uid, paths, bmeVals,
                   gpsVals, trace, checks>>

\* while (1); of initBME().
Halted ==
    /\ pc = "halted"
    /\ UNCHANGED vars

\* One turn of the Wi-Fi wait loop: not connected, delay(300).
WifiPoll ==
    /\ pc = "wifi"
    /\ wifiStatus # "WL_CONNECTED"
    /\ polls < MaxPolls
    /\ polls' = polls + 1
    /\ now' = U32Add(now, ToU32(PollDelay))
    /\ UNCHANGED <<pc, bmeBegin, wifiBegun, wifiStatus, wraps, tickAt, appInit, ready,
                   appUid, pending, gpsBuf, gps, iter, lastSendTime, currentTime, uid,
                   paths, bmeVals, gpsVals, trace, checks>>

\* A wait loop that gives up after MaxPolls turns and goes on without a link.
InitFirebaseTimeout ==
    /\ pc = "wifi"
    /\ wifiStatus = "WL_CONNECTED" \/ polls >= MaxPolls
    /\ appInit' = TRUE
    /\ pc' = "loop"
    /\ UNCHANGED <<bmeBegin, wifiBegun, wifiStatus, polls, now, wraps, tickAt, ready,
                   appUid, pending, gpsBuf, gps, iter, lastSendTime, currentTime, uid,
                   paths, bmeVals, gpsVals, trace, checks>>

\* The wait loop ends; ssl_client is configured and initializeApp() is called.
InitFirebase ==
    /\ pc = "wifi"
    /\ wifiStatus = "WL_CONNECTED"
    /\ appInit' = TRUE
    /\ pc' = "loop"
    /\ UNCHANGED <<bmeBegin, wifiBegun, wifiStatus, polls, now, wraps, tickAt, ready,
                   appUid, pending, gpsBuf, gps, iter, lastSendTime, currentTime, uid,
                   paths, bmeVals, gpsVals, trace, checks>>

(***************************************************************************)
(* loop(), main.cpp:130-233.  d is the time since the previous step, rs    *)
(* the results app.loop() delivers, bytes what gpsSerial received, r and u *)
(* what app.ready() and app.getUid() answer, t, h, p the BME280 readings.  *)
(* An iteration that does not run the telemetry block asks for neither the *)
(* uid nor the readings: u and t are then fixed, so that the iteration is  *)
(* one step and not one per answer nobody asked for.                       *)
(***************************************************************************)
LoopEffect(d, rs, bytes, r, u, t, h, p, hist, wr, at, pend) ==
    /\ pc = "loop"
    /\ Completions(rs) <= pend
    /\ \E out \in {LoopBody(Globals, rs, gpsBuf \o bytes, gps, r, U32Add(now, d), u, t, h, p)} :
       LET ms == U32Add(now, d)
           w == IF U32Lt(ms, now) THEN wr + 1 ELSE wr
           ran == Ran(out.m.trace)
       IN  /\ ran \/ (u = "abc123" /\ t = Rat(215, 10))
           /\ now' = ms
           /\ wraps' = w
           /\ ready' = r
           /\ appUid' = IF ran THEN u ELSE appUid
           /\ gps' = out.gps
           /\ gpsBuf' = out.buf
           /\ lastSendTime' = out.m.lastSendTime
           /\ currentTime' = out.m.currentTime
           /\ uid' = out.m.uid
           /\ paths' = out.m.paths
           /\ bmeVals' = out.m.bmeVals
           /\ gpsVals' = out.m.gpsVals
           /\ trace' = out.m.trace
           /\ pending' = pend - Completions(rs) + Len(Calls(out.m.trace))
           /\ tickAt' = IF ran THEN [w |-> w, t |-> ms] ELSE at
           /\ checks' = Append(hist, [ready |-> r, w |-> w, t |-> ms, d |-> d,
                                      last |-> lastSendTime, lastAt |-> at,
                                      ran |-> ran, uid |-> out.m.uid,
                                      avail |-> gpsBuf \o bytes])
    /\ UNCHANGED <<pc, bmeBegin, wifiBegun, wifiStatus, polls, appInit>>

\* An iteration that is counted and added to the history.
LoopStep(d, rs, bytes, r, u, t, h, p) ==
    /\ LoopEffect(d, rs, bytes, r, u, t, h, p, checks, wraps, tickAt, pending)
    /\ iter' = iter + 1

\* A loop() that goes back to the wait loop of setup() when the link is down.
LoopRejoin(d, rs, bytes, r, u, t, h, p) ==
    IF wifiStatus # "WL_CONNECTED"
    THEN /\ pc = "loop"
         /\ pc' = "wifi"
         /\ UNCHANGED <<bmeBegin, wifiBegun, wifiStatus, polls, now, wraps, tickAt,
                        appInit, ready, appUid, pending, gpsBuf, gps, iter,
                        lastSendTime, currentTime, uid, paths, bmeVals, gpsVals,
                        trace, checks>>
    ELSE /\ iter < MaxIter
         /\ LoopStep(d, rs, bytes, r, u, t, h, p)

Loop(d, rs, bytes, r, u, t, h, p) ==
    /\ iter < MaxIter
    /\ LoopStep(d, rs, bytes, r, u, t, h, p)

(***************************************************************************)
(* The environment.                                                        *)
(***************************************************************************)
\* The Wi-Fi link comes up or goes down.
WifiEvent(s) ==
    /\ wifiBegun
    /\ s # wifiStatus
    /\ wifiStatus' = s
    /\ UNCHANGED <<pc, bmeBegin, wifiBegun, polls, now, wraps, tickAt, appInit, ready,
                   appUid, pending, gpsBuf, gps, iter, lastSendTime, currentTime, uid,
                   paths, bmeVals, gpsVals, trace, checks>>

Next ==
    \/ \E ok \in BOOLEAN : InitBME(ok)
    \/ Halted
    \/ WifiPoll
    \/ InitFirebase
    \/ \E d \in MainDeltas, rs \in ResultBatches, bytes \in GpsArrivals, r \in BOOLEAN,
          u \in Uids, t \in Temps, h \in Hums, p \in Pressures :
            Loop(d, rs, bytes, r, u, t, h, p)
    \/ \E s \in {"WL_CONNECTED", "WL_DISCONNECTED"} : WifiEvent(s)

Spec == Init /\ [][Next]_vars

(***************************************************************************)
(* The same program with the environment reduced to what the timer gate    *)
(* reads: the clock and app.ready().  No result is delivered, no GPS byte  *)
(* arrives, the uid and the readings are fixed.                            *)
(***************************************************************************)
ClockLoop(d, r) ==
    /\ iter < MaxChecks
    /\ LoopStep(d, <<>>, <<>>, r, "abc123", Rat(215, 10), Rat(40, 1), Rat(101325, 1))

ClockNext ==
    \/ InitBME(TRUE)
    \/ WifiPoll
    \/ InitFirebase
    \/ WifiEvent("WL_CONNECTED")
    \/ \E d \in Deltas, r \in BOOLEAN : ClockLoop(d, r)

ClockSpec == Init /\ [][ClockNext]_vars

(***************************************************************************)
(* The program running forever.  loop() is called again and again by the   *)
(* Arduino core, so the history is cut to its latest entry, the iteration  *)
(* count saturates, the wrap count is kept relative to the latest tick,     *)
(* uploads of earlier iterations are not tracked and the clock moves in    *)
(* quarters of its range: the state space is finite and a behaviour can be *)
(* infinite.  The processor never stops executing the   *)
(* program, hence weak fairness of each of its steps; nothing is assumed   *)
(* of the wireless link, of the clock or of app.ready().                   *)
(***************************************************************************)
Quarter == <<Base \div 4, 0>>

LiveDeltas == { ToU32(0), Quarter }

\* Overflows of millis() since the latest tick, saturated.
WrapsSinceTick == IF wraps - tickAt.w >= 2 THEN 2 ELSE wraps - tickAt.w

LiveLoop(d, r) ==
    /\ LoopEffect(d, <<>>, <<>>, r, "abc123", Rat(215, 10), Rat(40, 1), Rat(101325, 1),
                  <<>>, WrapsSinceTick, [w |-> 0, t |-> tickAt.t], 0)
    /\ iter' = 1

LiveNext ==
    \/ InitBME(TRUE)
    \/ WifiPoll
    \/ InitFirebase
    \/ \E s \in {"WL_CONNECTED", "WL_DISCONNECTED"} : WifiEvent(s)
    \/ \E d \in LiveDeltas, r \in BOOLEAN : LiveLoop(d, r)

LiveSpec ==
    /\ Init
    /\ [][LiveNext]_vars
    /\ WF_vars(InitBME(TRUE))
    /\ WF_vars(WifiPoll)
    /\ WF_vars(InitFirebase)
    /\ WF_vars(\E d \in LiveDeltas, r \in BOOLEAN : LiveLoop(d, r))

(***************************************************************************)
(* Properties.                                                             *)
(***************************************************************************)
Interval == ToU32(sendInterval)

Done == checks # <<>>

\* The latest loop() iteration.
Cur == checks[Len(checks)]

IsReady(c) == c.ready

\* The iterations that reached the timer gate, in order.
GateChecks == SelectSeq(checks, IsReady)

Tasks(tr) == [i \in 1 .. Len(Calls(tr)) |-> Calls(tr)[i].task]

CallPaths(tr) == [i \in 1 .. Len(Calls(tr)) |-> Calls(tr)[i].arg]

BmeTasks == <<"RTDB_Send_Temperature", "RTDB_Send_Humidity", "RTDB_Send_Pressure">>

GpsTasks ==
    <<"RTDB_Send_Latitude", "RTDB_Send_Longitude", "RTDB_Send_Altitude", "RTDB_Send_Speed",
      "RTDB_Send_HDOP", "RTDB_Send_Satellites", "RTDB_Send_TimeUTC">>

BmeFields == <<"temperature", "humidity", "pressure">>

GpsFields == <<"latitude", "longitude", "altitude", "speed", "hdop", "satellites", "timeUTC">>

PathOf(u, field) == "UsersData/" \o u \o "/" \o field

IsTelemetryOp(e) ==
    e.op \in {"bme.readTemperature", "bme.readHumidity", "bme.readPressure", "gps.read",
              "Database.set"}

\* C1: in every iteration in which app.ready() is true, the telemetry block
\* runs and lastSendTime becomes the millis() value read iff currentTime -
\* lastSendTime >= sendInterval (unsigned); otherwise lastSendTime is left
\* alone.  And after a tick at now1, the first gate check at a now2 with
\* now2 - now1 >= sendInterval ticks.
C1_GateFiresIffIntervalElapsed ==
    /\ Done /\ Cur.ready =>
         /\ Cur.ran <=> U32Geq(U32Sub(Cur.t, Cur.last), Interval)
         /\ Cur.ran => lastSendTime = Cur.t /\ currentTime = Cur.t
         /\ ~Cur.ran => lastSendTime = Cur.last
    /\ \A i, j \in 1 .. Len(GateChecks) :
         ( /\ i < j
           /\ GateChecks[i].ran
           /\ U32Geq(U32Sub(GateChecks[j].t, GateChecks[i].t), Interval)
           /\ \A k \in (i + 1) .. (j - 1) :
                ~U32Geq(U32Sub(GateChecks[k].t, GateChecks[i].t), Interval) )
         => GateChecks[j].ran

\* A tick, and then a later gate check exactly sendInterval after it that ticks.
C1_Witness ==
    \E i, j \in 1 .. Len(GateChecks) :
        /\ i < j
        /\ GateChecks[i].ran
        /\ GateChecks[j].ran
        /\ U32Sub(GateChecks[j].t, GateChecks[i].t) = Interval

\* C2: on a tick at which the GPS fix is not valid, exactly the three
\* uploads temperature, humidity, pressure are issued and no GPS field is.
C2_InvalidFixThreeUploads ==
    (Done /\ Cur.ran /\ ~gps.valid) =>
        /\ Tasks(trace) = BmeTasks
        /\ CallPaths(trace) = [i \in 1 .. 3 |-> PathOf(uid, BmeFields[i])]

C2_Witness == Done /\ Cur.ran /\ ~gps.valid /\ Len(Calls(trace)) = 3

\* C3: on a tick at which the GPS fix is valid, exactly ten uploads are
\* issued, one per field, in the order temperature .. timeUTC.
C3_ValidFixTenUploads ==
    (Done /\ Cur.ran /\ gps.valid) =>
        /\ Tasks(trace) = BmeTasks \o GpsTasks
        /\ CallPaths(trace) = [i \in 1 .. 10 |-> PathOf(uid, (BmeFields \o GpsFields)[i])]
        /\ Cardinality({CallPaths(trace)[i] : i \in 1 .. Len(Calls(trace))}) = 10

C3_Witness == Done /\ Cur.ran /\ gps.valid /\ Len(Calls(trace)) = 10

\* The value of the k-th field as the globals hold it.
FieldValue(k) ==
    CASE k = 1 -> Val("float", bmeVals.temperature)
      [] k = 2 -> Val("float", bmeVals.humidity)
      [] k = 3 -> Val("float", bmeVals.pressure)
      [] k = 4 -> Val("double", gpsVals.latitude)
      [] k = 5 -> Val("double", gpsVals.longitude)
      [] k = 6 -> Val("double", gpsVals.altitude)
      [] k = 7 -> Val("double", gpsVals.speed)
      [] k = 8 -> Val("double", gpsVals.hdop)
      [] k = 9 -> Val("int", gpsVals.satellites)
      [] k = 10 -> Val("String", gpsVals.timeUTC)

\* C4: every upload call has the path "UsersData/" + uid + "/" + fieldName
\* with uid the answer of app.getUid() on that tick and fieldName the field
\* whose value the call carries; the uid is never empty nor an earlier one.
\* With uid "abc123" and a temperature of 21.5 the first call is
\* ("UsersData/abc123/temperature", 21.5).
C4_PathsFromUidOfTick ==
    Done =>
      /\ \A i \in 1 .. Len(Calls(trace)) :
           /\ appUid # ""
           /\ uid = appUid
           /\ \E k \in 1 .. 10 :
                /\ Calls(trace)[i].task = (BmeTasks \o GpsTasks)[k]
                /\ Calls(trace)[i].arg = PathOf(appUid, (BmeFields \o GpsFields)[k])
                /\ Calls(trace)[i].val = FieldValue(k)
      /\ (Cur.ran /\ appUid = "abc123" /\ bmeVals.temperature = Rat(215, 10)) =>
           /\ Calls(trace)[1].arg = "UsersData/abc123/temperature"
           /\ Calls(trace)[1].val = Val("float", Rat(215, 10))

\* A tick under uid "abc123" and then a tick under uid "u2".
C4_Witness ==
    /\ Len(checks) >= 2
    /\ checks[Len(checks) - 1].ran
    /\ checks[Len(checks) - 1].uid = "abc123"
    /\ Cur.ran
    /\ appUid = "u2"
    /\ Len(Calls(trace)) = 10

\* C5: sensor reads and upload calls happen only in an iteration in which
\* app.ready() was true and the timer test held.
C5_TelemetryOnlyWhenReadyAndDue ==
    (\E i \in 1 .. Len(trace) : IsTelemetryOp(trace[i])) =>
        /\ Done
        /\ Cur.ready
        /\ U32Geq(U32Sub(Cur.t, Cur.last), Interval)

\* An iteration at a time the timer would permit, with the app not ready:
\* nothing was read and nothing uploaded.
C5_Witness ==
    /\ Done
    /\ ~Cur.ready
    /\ U32Geq(U32Sub(Cur.t, Cur.last), Interval)
    /\ \A i \in 1 .. Len(trace) : ~IsTelemetryOp(trace[i])

BootScenario ==
    /\ Len(GateChecks) >= 3
    /\ GateChecks[1].w = 0 /\ GateChecks[1].t = ToU32(0)
    /\ GateChecks[2].w = 0 /\ GateChecks[2].t = ToU32(9999)
    /\ GateChecks[3].w = 0 /\ GateChecks[3].t = ToU32(10000)

\* C6 as stated: from boot, gate checks at t=0, t=9999, t=10000 fire, do not
\* fire, fire.
C6_AsStated ==
    BootScenario => GateChecks[1].ran /\ ~GateChecks[2].ran /\ GateChecks[3].ran

\* C6: from boot (lastSendTime = 0), gate checks at t=0 and t=9999 do not
\* fire and the following gate check at t=10000 fires.
C6_BootScenario ==
    BootScenario => ~GateChecks[1].ran /\ ~GateChecks[2].ran /\ GateChecks[3].ran

C6_Witness == BootScenario /\ GateChecks[3].ran

\* The real time from gate check a to gate check b is less than sendInterval.
CloserThanInterval(a, b) ==
    /\ RealGeq(Real(b.w, b.t), Real(a.w, a.t))
    /\ ~RealGeq(Real(b.w, b.t), RealPlus(Real(a.w, a.t), Interval))

\* C7 as stated: of two consecutive gate checks less than sendInterval
\* apart, the second never fires.
C7_AsStated ==
    \A i \in 1 .. Len(GateChecks) - 1 :
        CloserThanInterval(GateChecks[i], GateChecks[i + 1]) => ~GateChecks[i + 1].ran

\* C7: of two consecutive gate checks less than sendInterval apart, the
\* second does not fire when the first fired.
C7_NoSecondFireAfterFire ==
    \A i \in 1 .. Len(GateChecks) - 1 :
        (CloserThanInterval(GateChecks[i], GateChecks[i + 1]) /\ GateChecks[i].ran)
            => ~GateChecks[i + 1].ran

C7_Witness ==
    \E i \in 1 .. Len(GateChecks) - 1 :
        /\ CloserThanInterval(GateChecks[i], GateChecks[i + 1])
        /\ GateChecks[i].ran
        /\ GateChecks[i + 1].t # GateChecks[i].t
        /\ ~GateChecks[i + 1].ran

\* C8: at a gate check made less than 2^32 ms of real time after the last
\* tick (or after boot), wrapped or not, the gate fires iff that real time
\* is at least sendInterval.
C8_WrapTolerant ==
    \A i \in 1 .. Len(GateChecks) :
        LET c == GateChecks[i]
            nowR == Real(c.w, c.t)
            lastR == Real(c.lastAt.w, c.lastAt.t)
        IN  ~RealGeq(nowR, <<lastR[1] + 1, lastR[2], lastR[3]>>)
                => (c.ran <=> RealGeq(nowR, RealPlus(lastR, Interval)))

\* The counter wrapped after a tick; a gate check 9999 ms after the tick did
\* not fire and the one 10000 ms after it fired.
C8_Witness ==
    /\ Len(GateChecks) >= 3
    /\ GateChecks[1].ran
    /\ GateChecks[2].w = GateChecks[1].w + 1 /\ ~GateChecks[2].ran
    /\ GateChecks[3].w = GateChecks[1].w + 1 /\ GateChecks[3].ran
    /\ U32Sub(GateChecks[3].t, GateChecks[1].t) = Interval

ErrorLogged(tr) == \E i \in 1 .. Len(tr) : tr[i].op = "printf" /\ tr[i].arg = "Error task"

\* C9: a loop() iteration in which processData was handed an Error result
\* issues no upload for it and leaves the telemetry state alone: the gate
\* fires exactly when it would have, a tick issues exactly its 3 or 10
\* uploads, and without a tick nothing is uploaded and lastSendTime, uid,
\* the paths and the stored readings keep their values.
C9_ErrorOnlyLogged ==
    [][ (iter' = iter + 1 /\ ErrorLogged(trace')) =>
          LET c == checks'[Len(checks')]
              due == c.ready /\ U32Geq(U32Sub(c.t, lastSendTime), Interval)
          IN  /\ c.ran <=> due
              /\ due => /\ lastSendTime' = c.t
                        /\ Tasks(trace') = IF gps'.valid THEN BmeTasks \o GpsTasks
                                           ELSE BmeTasks
              /\ ~due => /\ Calls(trace') = <<>>
                         /\ UNCHANGED <<lastSendTime, uid, paths, bmeVals, gpsVals>>
      ]_vars

\* An Error result was delivered in an iteration that also ticked.
C9_Witness == Done /\ ErrorLogged(trace) /\ Cur.ran /\ Len(checks) >= 2

\* C10: once bme.begin() has failed the program is halted for good: Wi-Fi
\* is never begun, the app never initialized, loop() never entered, no
\* upload issued, and no step leaves the halted state.
C10_SensorFailureHalts ==
    /\ [](bmeBegin = "fail" =>
            /\ pc = "halted"
            /\ ~wifiBegun
            /\ ~appInit
            /\ iter = 0
            /\ trace = <<>>
            /\ pending = 0)
    /\ [][pc = "halted" => pc' = "halted"]_vars

C10_Witness == bmeBegin = "fail" /\ pc = "halted"

(***************************************************************************)
(* C11.  The wireless join is retried without limit.  While WiFi.status()  *)
(* is not WL_CONNECTED setup() stays in the wait loop, and every turn of   *)
(* the loop costs the same delay; initializeApp() and loop() are reached   *)
(* only from the wait loop, in a state where the status is connected.      *)
(* Progress: if the status becomes connected and stays connected, setup()  *)
(* eventually initializes the app.  As stated, with the status merely      *)
(* becoming connected at some moment, progress does not follow: the status *)
(* is read once per turn, and a link that is lost again before the next    *)
(* read is never seen.                                                     *)
(***************************************************************************)
Connected == wifiStatus = "WL_CONNECTED"

C11_JoinSafety ==
    /\ [](pc = "loop" => appInit)
    /\ [](appInit => pc = "loop")
    /\ [][(pc = "wifi" /\ ~Connected) => pc' = "wifi" /\ ~appInit']_vars
    /\ [][(pc = "wifi" /\ pc' # "wifi") =>
             Connected /\ pc' = "loop" /\ appInit' /\ now' = now /\ polls' = polls]_vars
    /\ [][polls' # polls =>
             /\ pc = "wifi" /\ ~Connected
             /\ polls' = polls + 1
             /\ now' = U32Add(now, ToU32(PollDelay))]_vars

C11_AsStated == C11_JoinSafety /\ [](Connected => <>appInit)

C11_JoinRetriedUntilConnected == C11_JoinSafety /\ (<>[]Connected => <>appInit)

\* setup() went through the wait loop at least once and then initialized the app.
C11_Witness == appInit /\ polls > 0 /\ Connected

(***************************************************************************)
(* C12.  The program goes through its phases in one direction only:        *)
(* Initializing (initBME), Connecting (the wait loop), Authenticating and  *)
(* Ready (loop(), where app.ready() is polled).  Every change of phase is  *)
(* a step to the next one (or to the halt of a failed sensor), and once a  *)
(* phase is left its work is never done again: the answer of bme.begin()   *)
(* is final, WiFi.begin() is not called again, the wait loop takes no      *)
(* further turn and the app stays initialized, whatever happens later to   *)
(* the link, to app.ready() or to the uploads.                             *)
(***************************************************************************)
PhaseOf(p) == CASE p = "setup" -> 1 [] p = "wifi" -> 2 [] p = "loop" -> 3 [] OTHER -> 0

C12_PhasesForwardOnly ==
    /\ [](ready => pc = "loop" /\ appInit)
    /\ [](pc = "loop" => bmeBegin = "ok" /\ wifiBegun /\ appInit)
    /\ [][pc' # pc => \/ PhaseOf(pc') = PhaseOf(pc) + 1
                      \/ pc = "setup" /\ pc' = "halted"]_vars
    /\ [][bmeBegin # "none" => bmeBegin' = bmeBegin]_vars
    /\ [][wifiBegun => wifiBegun']_vars
    /\ [][pc = "loop" => pc' = "loop" /\ polls' = polls /\ appInit']_vars

\* In loop() the link is down and the app, ready one iteration ago, is not ready.
C12_Witness ==
    /\ pc = "loop"
    /\ wifiStatus = "WL_DISCONNECTED"
    /\ Len(checks) = 2
    /\ checks[1].ready
    /\ ~checks[2].ready

(***************************************************************************)
(* C13.  Every loop() iteration, ready or not, gate fired or not, begins   *)
(* with exactly one call of app.loop(); then every byte that gpsSerial has *)
(* available is fed to the parser, in order, until none is left; only then *)
(* is app.ready() asked, and millis() read after that.                     *)
(***************************************************************************)
IsEncode(e) == e.op = "gps.encode"

Where(tr, op) == { i \in 1 .. Len(tr) : tr[i].op = op }

Fed(tr) == [i \in 1 .. Len(SelectSeq(tr, IsEncode)) |-> SelectSeq(tr, IsEncode)[i].arg]

C13_AppLoopThenDrainThenGate ==
    (Done /\ pc = "loop") =>
        /\ trace[1].op = "app.loop"
        /\ Cardinality(Where(trace, "app.loop")) = 1
        /\ Cardinality(Where(trace, "app.ready")) = 1
        /\ Fed(trace) = Cur.avail
        /\ gpsBuf = <<>>
        /\ \A k \in Where(trace, "app.ready") :
              /\ Where(trace, "gps.encode") = (k - Len(Cur.avail)) .. (k - 1)
              /\ \A i \in Where(trace, "millis") : i > k
              /\ \A i \in Where(trace, "Database.set") : i > k

\* Two bytes were available in an iteration that found the app not ready.
C13_Witness ==
    /\ Done
    /\ Len(Cur.avail) = 2
    /\ ~Cur.ready
    /\ Len(SelectSeq(trace, IsEncode)) = 2

(***************************************************************************)
(* C14.  A loop() iteration whose timer gate does not fire, because the    *)
(* app is not ready or because less than sendInterval has passed since     *)
(* lastSendTime, leaves the telemetry state alone: lastSendTime, uid, the  *)
(* ten path strings, the stored sensor readings and the stored GPS values  *)
(* keep their values, and no Database.set call is issued.                  *)
(***************************************************************************)
NotDue(c) == ~c.ready \/ U32Lt(U32Sub(c.t, c.last), Interval)

C14_NoEffectWhenGateClosed ==
    [][(Len(checks') = Len(checks) + 1 /\ NotDue(checks'[Len(checks')])) =>
          /\ UNCHANGED <<lastSendTime, uid, paths, bmeVals, gpsVals>>
          /\ Calls(trace') = <<>>
          /\ \A i \in 1 .. Len(trace') : ~IsTelemetryOp(trace'[i])]_vars

\* After a tick that stored a valid fix, a ready iteration inside the interval.
C14_Witness ==
    /\ Len(checks) = 2
    /\ checks[1].ran
    /\ checks[2].ready
    /\ NotDue(checks[2])
    /\ uid # ""
    /\ gpsVals.satellites # 0
    /\ Len(Cur.avail) > 0

(***************************************************************************)
(* C15.  One tick per interval.  Any two ticks are at least sendInterval   *)
(* of real time apart.  When more than one interval has passed since the   *)
(* latest tick (or since boot), the next iteration that finds the app      *)
(* ready fires, and it fires one tick: one run of the block, after which   *)
(* lastSendTime is the time of that iteration, so that missed intervals    *)
(* are not caught up.  As stated the second part fails when 2^32 ms or     *)
(* more have passed, since the gate sees the time modulo 2^32; it holds    *)
(* for less than 2^32 ms.                                                  *)
(***************************************************************************)
At(c) == Real(c.w, c.t)

LastAt(c) == Real(c.lastAt.w, c.lastAt.t)

OneRoundLater(a) == <<a[1] + 1, a[2], a[3]>>

TicksApart ==
    \A i, j \in 1 .. Len(checks) :
        (i < j /\ checks[i].ran /\ checks[j].ran)
            => RealGeq(At(checks[j]), RealPlus(At(checks[i]), Interval))

Overdue(c) == c.ready /\ RealGeq(At(c), RealPlus(LastAt(c), ToU32(sendInterval + 1)))

OneTick(c) ==
    /\ c.ran
    /\ c = Cur => /\ lastSendTime = c.t
                  /\ Cardinality(Where(trace, "millis")) = 1
                  /\ Cardinality(Where(trace, "app.getUid")) = 2
                  /\ Tasks(trace) = BmeTasks

C15_AsStated ==
    /\ TicksApart
    /\ \A j \in 1 .. Len(checks) : Overdue(checks[j]) => OneTick(checks[j])

C15_OneTickPerInterval ==
    /\ TicksApart
    /\ \A j \in 1 .. Len(checks) :
          (Overdue(checks[j]) /\ ~RealGeq(At(checks[j]), OneRoundLater(LastAt(checks[j]))))
              => OneTick(checks[j])

\* Two intervals passed before the app was ready; that iteration fired, and
\* the ready iteration right after it did not.
C15_Witness ==
    /\ Len(checks) = 3
    /\ ~checks[1].ready
    /\ checks[2].ran
    /\ At(checks[2]) = Real(0, ToU32(2 * sendInterval))
    /\ checks[3].ready
    /\ ~checks[3].ran
    /\ lastSendTime = checks[2].t

(***************************************************************************)
(* C17.  The GPS values a tick uploads are the ones the parser holds on    *)
(* that tick.  gps.location.isValid() is asked twice in a tick, once to    *)
(* capture the values and once to guard the uploads; no byte is fed to the *)
(* parser between the two, and both get the same answer.  With a valid fix *)
(* the seven GPS uploads carry the parser's values of this tick, whatever  *)
(* an earlier tick left in the globals; without one no GPS field is        *)
(* uploaded, so neither stale nor never-assigned values are sent.          *)
(***************************************************************************)
ParserValues(g) ==
    << Val("double", g.lat), Val("double", g.lng), Val("double", g.meters),
       Val("double", g.kmph), Val("double", RatDiv(Rat(g.hdop, 1), 100)),
       Val("int", g.sats), Val("String", FormatTimeUTC(g)) >>

C17_GpsValuesOfThisTick ==
    (Done /\ Cur.ran) =>
        /\ Cardinality(Where(trace, "gps.location.isValid")) = 2
        /\ \A i \in Where(trace, "gps.location.isValid") :
              /\ trace[i].ret = gps.valid
              /\ \A e \in Where(trace, "gps.encode") : e < i
        /\ \A i \in Where(trace, "gps.read") : trace[i].ret = gps
        /\ IF gps.valid
           THEN /\ Len(Calls(trace)) = 10
                /\ [k \in 1 .. 7 |-> Calls(trace)[3 + k].val] = ParserValues(gps)
           ELSE /\ Tasks(trace) = BmeTasks
                /\ Where(trace, "gps.read") = {}

\* A tick with the fix FixB after a tick that stored the values of FixA.
C17_Witness ==
    /\ Len(checks) = 2
    /\ checks[1].ran /\ checks[1].avail = <<"x", "A">>
    /\ checks[2].ran /\ checks[2].avail = <<"B">>
    /\ gps = FixB
    /\ Len(Calls(trace)) = 10
    /\ gpsVals.satellites = FixB.sats

(***************************************************************************)
(* C18.  Telemetry keeps going.  With setup() completed and loop() called  *)
(* again and again, if millis() keeps advancing and app.ready() is true    *)
(* from some point on, a tick happens again and again, and every tick      *)
(* issues the temperature, humidity and pressure uploads.  The timer runs  *)
(* while the app is not ready: an iteration that finds the app ready       *)
(* sendInterval or more after the latest tick (or after boot) ticks at     *)
(* once.  As stated the last part fails when 2^32 ms or more have passed,  *)
(* since the gate sees the time modulo 2^32; it holds for less than that.  *)
(***************************************************************************)
Due(c) == c.ready /\ RealGeq(At(c), RealPlus(LastAt(c), Interval))

WithinOneRound(c) == ~RealGeq(At(c), OneRoundLater(LastAt(c)))

TickUploadsBME == (Done /\ Cur.ran) => SubSeq(Tasks(trace), 1, 3) = BmeTasks

\* An iteration that changes nothing is a stuttering step, so under the fairness
\* of loop() the clock advances or app.ready() changes again and again.
TicksForever ==
    (<>[](Done /\ Cur.ready) /\ []<>(Done /\ Cur.d # ToU32(0))) => []<>(Done /\ Cur.ran)

C18_AsStated ==
    /\ TicksForever
    /\ [](TickUploadsBME)
    /\ [](Done /\ Due(Cur) => Cur.ran)

C18_TelemetryLive ==
    /\ TicksForever
    /\ [](TickUploadsBME)
    /\ [](Done /\ Due(Cur) /\ WithinOneRound(Cur) => Cur.ran)

\* A tick in an iteration during which no time passed: the interval went by
\* while the app was not ready, and the first ready iteration fired.
C18_Witness ==
    /\ Done
    /\ Cur.ready
    /\ Cur.ran
    /\ Cur.d = ToU32(0)
    /\ Cur.last = ToU32(0)
    /\ Cur.t = Quarter
    /\ Tasks(trace) = BmeTasks

====
